---- MODULE Spec2Model ----
(***************************************************************************)
(* Model of dj-translation-cli: the interactive collector                  *)
(* (utils.prompt_for_translation), the catalog scanner and patcher         *)
(* (utils.extract_msgs_from_file, utils.replace_translation_in_content)    *)
(* and the multi-language replace command                                  *)
(* (translate.replace_list_of_translations).                               *)
(*                                                                         *)
(* Catalog text is a sequence of one-character strings, so that the        *)
(* regular expressions and str.replace of the source are computed          *)
(* character by character.                                                 *)
(***************************************************************************)
EXTENDS Integers, Sequences, FiniteSets, TLC

VARIABLES
    \* ---- prompt_for_translation ----
    msgs,          \* the identifier list handed to the collector
    i,             \* the cursor
    translations,  \* identifier -> translation collected so far
    pc,            \* "prompt" | "confirm_blank" | "confirm_quit" |
                   \* "returned" | "exited" | "crashed"
    answer,        \* value returned by the last typer.confirm
    inputs,        \* every line read by session.prompt, with the identifier shown
    \* ---- replace_translation_in_content / extract_msgs_from_file ----
    content,       \* catalog text handed to the patcher
    mapping,       \* identifier -> translation handed to the patcher
    result,        \* (content, replaced) returned by the patcher
    surfaced,      \* identifiers extracted from the returned text
    ppc,           \* "ready" | "applied" | "extracted"
    \* ---- replace_list_of_translations ----
    files,         \* language -> catalog file on disk
    original,      \* the catalog files as they were when the command started
    table,         \* language -> (identifier -> translation), read from the csv
    order,         \* msgs.keys(): the languages in iteration order
    k,             \* index in order of the language being processed
    mem,           \* the patched text held in memory for the current language
    stats,         \* language -> replacement count
    rpc            \* "read" | "open_w" | "write" | "done" | "failed"

collectorVars == <<msgs, i, translations, pc, answer, inputs>>
patcherVars   == <<content, mapping, result, surfaced, ppc>>
replaceVars   == <<files, original, table, order, k, mem, stats, rpc>>
vars == <<msgs, i, translations, pc, answer, inputs,
          content, mapping, result, surfaced, ppc,
          files, original, table, order, k, mem, stats, rpc>>

(***************************************************************************)
(* Bounds of the model.                                                    *)
(***************************************************************************)
MaxMsgs   == 2     \* longest identifier list given to the collector
MaxInputs == 4     \* lines read by the collector in one session

(***************************************************************************)
(* Idle values of the components a specification does not exercise.        *)
(***************************************************************************)
EmptyMap == [x \in {} |-> x]

CollectorIdle ==
    /\ msgs = <<>> /\ i = 0 /\ translations = EmptyMap
    /\ pc = "returned" /\ answer = "none" /\ inputs = <<>>

PatcherIdle ==
    /\ content = <<>> /\ mapping = EmptyMap
    /\ result = [content |-> <<>>, replaced |-> 0]
    /\ surfaced = <<>> /\ ppc = "extracted"

ReplaceIdle ==
    /\ files = EmptyMap /\ original = EmptyMap
    /\ table = EmptyMap /\ order = <<>>
    /\ k = 1 /\ mem = <<>> /\ stats = EmptyMap /\ rpc = "done"

(***************************************************************************)
(* prompt_for_translation                                                  *)
(***************************************************************************)
CollectorIds == {"A", "B"}
Commands     == {":u", ":n", ":b", ":x", ":q"}
Literals     == {"x", "y"}

\* python list indexing msgs[j]: negative j counts from the end
Item(list, j) == IF j >= 0 THEN list[j + 1] ELSE list[Len(list) + j + 1]

\* msgs[j] raises IndexError outside -len .. len-1
IndexError(list, j) == j >= Len(list) \/ j < -Len(list)

\* `while i < len(msgs)` followed by print(msgs[i]) and session.prompt
LoopHead(list, j) ==
    IF ~(j < Len(list)) THEN "returned"
    ELSE IF IndexError(list, j) THEN "crashed"
    ELSE "prompt"

\* translations[key] = value
DictSet(d, key, value) ==
    [x \in DOMAIN d \cup {key} |-> IF x = key THEN value ELSE d[x]]

\* the collector touches neither the catalogs nor the patcher's data
CollectorFrame == UNCHANGED <<patcherVars, replaceVars>>

\* session.prompt returns `line` while msgs[i] is on display
Read(line) ==
    /\ pc = "prompt"
    /\ Len(inputs) < MaxInputs
    /\ inputs' = Append(inputs, [shown |-> Item(msgs, i), line |-> line])

\* case "": typer.confirm("... set a blank translation")
InputBlank ==
    /\ Read("")
    /\ pc' = "confirm_blank"
    /\ UNCHANGED <<msgs, i, translations, answer>>
    /\ CollectorFrame

\* a collector that stores the blank translation and advances on "yes"
ConfirmBlankStores(a) ==
    /\ pc = "confirm_blank"
    /\ answer' = a
    /\ translations' = IF a = "yes" THEN DictSet(translations, Item(msgs, i), "")
                       ELSE translations
    /\ i' = IF a = "yes" THEN i + 1 ELSE i
    /\ pc' = LoopHead(msgs, i')
    /\ UNCHANGED <<msgs, inputs>>
    /\ CollectorFrame

\* the confirmation returns; its value is not used and the loop goes on
ConfirmBlank(a) ==
    /\ pc = "confirm_blank"
    /\ answer' = a
    /\ pc' = LoopHead(msgs, i)
    /\ UNCHANGED <<msgs, i, translations, inputs>>
    /\ CollectorFrame

\* case ":u": i -= 1
InputU ==
    /\ Read(":u")
    /\ i' = i - 1
    /\ pc' = LoopHead(msgs, i')
    /\ UNCHANGED <<msgs, translations, answer>>
    /\ CollectorFrame

\* case ":n": i += 1
InputN ==
    /\ Read(":n")
    /\ i' = i + 1
    /\ pc' = LoopHead(msgs, i')
    /\ UNCHANGED <<msgs, translations, answer>>
    /\ CollectorFrame

\* case ":b": i = 0
InputB ==
    /\ Read(":b")
    /\ i' = 0
    /\ pc' = LoopHead(msgs, i')
    /\ UNCHANGED <<msgs, translations, answer>>
    /\ CollectorFrame

\* case ":x": break, then return translations
InputX ==
    /\ Read(":x")
    /\ pc' = "returned"
    /\ UNCHANGED <<msgs, i, translations, answer>>
    /\ CollectorFrame

\* case ":q": typer.confirm("... quit without saving")
InputQ ==
    /\ Read(":q")
    /\ pc' = "confirm_quit"
    /\ UNCHANGED <<msgs, i, translations, answer>>
    /\ CollectorFrame

\* the confirmation returns; its value is not used; sys.exit(0)
ConfirmQuit(a) ==
    /\ pc = "confirm_quit"
    /\ answer' = a
    /\ pc' = "exited"
    /\ UNCHANGED <<msgs, i, translations, inputs>>
    /\ CollectorFrame

\* a collector that keeps the first translation entered for an identifier
InputLiteralKeepsFirst(line) ==
    /\ Read(line)
    /\ translations' = IF Item(msgs, i) \in DOMAIN translations
                       THEN translations
                       ELSE DictSet(translations, Item(msgs, i), line)
    /\ i' = i + 1
    /\ pc' = LoopHead(msgs, i')
    /\ UNCHANGED <<msgs, answer>>
    /\ CollectorFrame

\* case _: translations[msgs[i]] = translation; i += 1
InputLiteral(line) ==
    /\ Read(line)
    /\ translations' = DictSet(translations, Item(msgs, i), line)
    /\ i' = i + 1
    /\ pc' = LoopHead(msgs, i')
    /\ UNCHANGED <<msgs, answer>>
    /\ CollectorFrame

SeqsUpTo(S, n) == UNION {[1..m -> S] : m \in 0..n}

InitCollector ==
    /\ msgs \in SeqsUpTo(CollectorIds, MaxMsgs)
    /\ i = 0
    /\ translations = EmptyMap
    /\ pc = LoopHead(msgs, 0)
    /\ answer = "none"
    /\ inputs = <<>>
    /\ PatcherIdle /\ ReplaceIdle

NextCollector ==
    \/ InputBlank
    \/ \E a \in {"yes", "no"} : ConfirmBlank(a)
    \/ InputU
    \/ InputN
    \/ InputB
    \/ InputX
    \/ InputQ
    \/ \E a \in {"yes", "no"} : ConfirmQuit(a)
    \/ \E line \in Literals : InputLiteral(line)

SpecCollector == InitCollector /\ [][NextCollector]_vars

(***************************************************************************)
(* Claims about prompt_for_translation, checked under SpecCollector.       *)
(***************************************************************************)
\* the step reads `line` from the prompt
Entered(line) ==
    /\ Len(inputs') = Len(inputs) + 1
    /\ inputs'[Len(inputs')].line = line

\* the step reads a literal translation: non-empty and not a command
EnteredLiteral ==
    /\ Len(inputs') = Len(inputs) + 1
    /\ inputs'[Len(inputs')].line \notin Commands \cup {""}

\* positions of the log at which a literal was read
LiteralReads == {n \in 1..Len(inputs) : inputs[n].line \notin Commands \cup {""}}

\* C1: the cursor is never negative: `:u` at cursor 0 leaves it at 0, and
\* the collector never indexes the list out of range.
C1_CursorNeverNegative == i >= 0 /\ pc # "crashed"

\* C2: after `:q` the session is aborted only if the confirmation was
\* answered yes; answered no, the session is not aborted.
C2_QuitNeedsYes == ~(pc = "exited" /\ answer = "no")

\* C3: when the collector returns, the mapping holds exactly the identifiers
\* that were on display when a literal was read, each with the last literal
\* read for it; a literal advances the cursor by exactly one and `:x`
\* returns at once with the mapping as it stands.
C3_ReturnedMapping ==
    /\ [](pc = "returned" =>
            /\ DOMAIN translations = {inputs[n].shown : n \in LiteralReads}
            /\ \A id \in DOMAIN translations :
                  \E n \in LiteralReads :
                      /\ inputs[n].shown = id
                      /\ inputs[n].line = translations[id]
                      /\ \A m \in LiteralReads :
                            inputs[m].shown = id => m <= n)
    /\ [][EnteredLiteral => i' = i + 1]_vars
    /\ [][Entered(":x") => (pc' = "returned" /\ translations' = translations)]_vars

\* C3 witness: the collector has returned with an identifier whose
\* translation was entered twice, and another identifier never translated.
C3_Witness ==
    /\ pc = "returned"
    /\ \E n, m \in LiteralReads :
          n < m /\ inputs[n].shown = inputs[m].shown /\ inputs[n].line # inputs[m].line
    /\ \E n \in 1..Len(msgs) : msgs[n] \notin DOMAIN translations
    /\ inputs[Len(inputs)].line = ":x"

\* C10: an empty line asks for a confirmation and, whatever the answer,
\* leaves cursor and mapping unchanged with the same identifier presented
\* again; the mapping never holds an empty translation.
C10_BlankChangesNothing ==
    /\ [][Entered("") =>
            (pc' = "confirm_blank" /\ i' = i /\ translations' = translations)]_vars
    /\ [][pc = "confirm_blank" =>
            (pc' = "prompt" /\ i' = i /\ translations' = translations)]_vars
    /\ [](\A id \in DOMAIN translations : translations[id] # "")

\* C10 witness: a blank line was confirmed with yes after a translation had
\* been collected, and the collector is prompting again.
C10_Witness ==
    /\ pc = "prompt"
    /\ answer = "yes"
    /\ Len(inputs) >= 2
    /\ inputs[Len(inputs)].line = ""
    /\ translations # EmptyMap

(***************************************************************************)
(* Text: sequences of one-character strings.                               *)
(***************************************************************************)
NL == "\n"
QUOTE == "\""

\* the literal parts of the three regular expressions
MSGID_OPEN   == <<"m","s","g","i","d"," ","\"">>                \* msgid "
MSGSTR_OPEN  == <<"m","s","g","s","t","r"," ","\"">>            \* msgstr "
MSGSTR_EMPTY == MSGSTR_OPEN \o <<QUOTE>>                        \* msgstr ""
FUZZY_OPEN   == <<"#",","," ","f","u","z","z","y","\n","#","|"," ">>
                    \o MSGID_OPEN                               \* #, fuzzy\n#| msgid "
EMPTY_TAIL   == <<NL>> \o MSGSTR_EMPTY \o <<NL, NL>>            \* \nmsgstr ""\n\n

Least(S) == CHOOSE n \in S : \A m \in S : n <= m
Greatest(S) == CHOOSE n \in S : \A m \in S : n >= m

\* s[p..] starts with pat
HasAt(s, p, pat) ==
    /\ p >= 1
    /\ p + Len(pat) - 1 <= Len(s)
    /\ \A n \in 1..Len(pat) : s[p + n - 1] = pat[n]

\* position of the first line break at or after p, Len(s)+1 when there is none:
\* where a `.*` that starts at p must stop
LineEnd(s, p) ==
    LET breaks == {n \in p..Len(s) : s[n] = NL}
    IN  IF breaks = {} THEN Len(s) + 1 ELSE Least(breaks)

\* position of the last quote in s[lo..hi], 0 when there is none
LastQuote(s, lo, hi) ==
    LET quotes == {n \in lo..hi : s[n] = QUOTE}
    IN  IF quotes = {} THEN 0 ELSE Greatest(quotes)

NoMatch == [start |-> 0, stop |-> 0, g1 |-> <<>>]

\* TRANSLATION_REGEX  msgid "(.*)"\nmsgstr ""\n\n  matched at p.
\* `.` takes no line break, so the quote that closes the group is the last
\* character of the line and the rest follows the line break.
TRANSLATION_REGEX(s, p) ==
    LET q == p + Len(MSGID_OPEN)
        e == LineEnd(s, q)
    IN  IF /\ HasAt(s, p, MSGID_OPEN)
           /\ e - 1 >= q
           /\ s[e - 1] = QUOTE
           /\ HasAt(s, e, EMPTY_TAIL)
        THEN [start |-> p, stop |-> e + Len(EMPTY_TAIL), g1 |-> SubSeq(s, q, e - 2)]
        ELSE NoMatch

\* FUZZY_REGEX  #, fuzzy\n#\| msgid ".*"\nmsgid "(.*)"\nmsgstr "(.*)"  at p.
\* The last group is greedy: the match stops at the last quote of the line.
FUZZY_REGEX(s, p) ==
    LET q1 == p + Len(FUZZY_OPEN)
        e1 == LineEnd(s, q1)
        q2 == e1 + 1 + Len(MSGID_OPEN)
        e2 == LineEnd(s, q2)
        q3 == e2 + 1 + Len(MSGSTR_OPEN)
        e3 == LineEnd(s, q3)
        lq == LastQuote(s, q3, e3 - 1)
    IN  IF /\ HasAt(s, p, FUZZY_OPEN)
           /\ e1 - 1 >= q1
           /\ s[e1 - 1] = QUOTE
           /\ HasAt(s, e1, <<NL>> \o MSGID_OPEN)
           /\ e2 - 1 >= q2
           /\ s[e2 - 1] = QUOTE
           /\ HasAt(s, e2, <<NL>> \o MSGSTR_OPEN)
           /\ lq # 0
        THEN [start |-> p, stop |-> lq + 1, g1 |-> SubSeq(s, q2, e2 - 2)]
        ELSE NoMatch

\* ((\n"(.*?)")+) from r: the position after the last continuation line.
\* A continuation line opens with a quote and ends with another one.
RECURSIVE ContinuationEnd(_, _)
ContinuationEnd(s, r) ==
    LET e == LineEnd(s, r + 1)
    IN  IF /\ HasAt(s, r, <<NL, QUOTE>>)
           /\ e - 1 >= r + 2
           /\ s[e - 1] = QUOTE
        THEN ContinuationEnd(s, e)
        ELSE r

\* LONG_TRANSLATION_REGEX  msgid ""((\n"(.*?)")+)\nmsgstr ""\n\n  at p;
\* g1 is group(1), the continuation lines with their line breaks.
LONG_TRANSLATION_REGEX(s, p) ==
    LET r0 == p + Len(MSGID_OPEN) + 1
        r  == ContinuationEnd(s, r0)
    IN  IF /\ HasAt(s, p, MSGID_OPEN \o <<QUOTE>>)
           /\ r > r0
           /\ HasAt(s, r, EMPTY_TAIL)
        THEN [start |-> p, stop |-> r + Len(EMPTY_TAIL), g1 |-> SubSeq(s, r0, r - 1)]
        ELSE NoMatch

MatchAt(regex, s, p) ==
    CASE regex = "TRANSLATION_REGEX"      -> TRANSLATION_REGEX(s, p)
      [] regex = "FUZZY_REGEX"            -> FUZZY_REGEX(s, p)
      [] regex = "LONG_TRANSLATION_REGEX" -> LONG_TRANSLATION_REGEX(s, p)

\* regex.finditer(s): the non-overlapping matches from left to right
RECURSIVE finditer(_, _, _)
finditer(regex, s, p) ==
    LET at == {n \in p..Len(s) : MatchAt(regex, s, n).start # 0}
    IN  IF at = {} THEN <<>>
        ELSE LET m == MatchAt(regex, s, Least(at))
             IN  <<m>> \o finditer(regex, s, m.stop)

\* found.group()
Group0(s, m) == SubSeq(s, m.start, m.stop - 1)

\* str.replace(old, new): every non-overlapping occurrence, left to right
RECURSIVE StrReplaceFrom(_, _, _, _)
StrReplaceFrom(s, p, old, new) ==
    LET at == {n \in p..Len(s) : HasAt(s, n, old)}
    IN  IF at = {} THEN SubSeq(s, p, Len(s))
        ELSE LET n == Least(at)
             IN  SubSeq(s, p, n - 1) \o new \o StrReplaceFrom(s, n + Len(old), old, new)

StrReplace(s, old, new) == StrReplaceFrom(s, 1, old, new)

\* msg_id.replace('"', "").replace("\n", "")
StripQuotesAndBreaks(s) == SelectSeq(s, LAMBDA c : c # QUOTE /\ c # NL)

\* `msg_id not in msgs or not msgs[msg_id]`
Skipped(msgs_, msg_id) == msg_id \notin DOMAIN msgs_ \/ msgs_[msg_id] = <<>>

(***************************************************************************)
(* extract_msgs_from_file                                                  *)
(***************************************************************************)
Groups1(ms) == [n \in 1..Len(ms) |-> ms[n].g1]

extract_msgs_from_file(text) ==
    LET simple == finditer("TRANSLATION_REGEX", text, 1)
        long   == finditer("LONG_TRANSLATION_REGEX", text, 1)
        fuzzy  == finditer("FUZZY_REGEX", text, 1)
    IN  Groups1(simple)
        \o [n \in 1..Len(long) |-> StripQuotesAndBreaks(long[n].g1)]
        \o Groups1(fuzzy)

(***************************************************************************)
(* _wrap_string                                                            *)
(***************************************************************************)
WRAP_WIDTH == 80

IsSpace(c) == c \in {" ", "\n", "\t"}

\* str.strip()
RECURSIVE LStrip(_)
LStrip(s) == IF s # <<>> /\ IsSpace(Head(s)) THEN LStrip(Tail(s)) ELSE s

RECURSIVE RStrip(_)
RStrip(s) ==
    IF s # <<>> /\ IsSpace(s[Len(s)]) THEN RStrip(SubSeq(s, 1, Len(s) - 1)) ELSE s

Strip(s) == RStrip(LStrip(s))

\* str.split(): the maximal runs of non-whitespace characters
RECURSIVE SplitFrom(_, _)
SplitFrom(s, p) ==
    LET starts == {n \in p..Len(s) : ~IsSpace(s[n])}
    IN  IF starts = {} THEN <<>>
        ELSE LET b == Least(starts)
                 spaces == {n \in b..Len(s) : IsSpace(s[n])}
                 e == IF spaces = {} THEN Len(s) + 1 ELSE Least(spaces)
             IN  <<SubSeq(s, b, e - 1)>> \o SplitFrom(s, e)

Split(s) == SplitFrom(s, 1)

\* "\n".join(lines)
RECURSIVE Join(_, _)
Join(lines, sep) ==
    IF lines = <<>> THEN <<>>
    ELSE IF Len(lines) = 1 THEN lines[1]
    ELSE lines[1] \o sep \o Join(Tail(lines), sep)

\* the loop of _wrap_string over words[n..]
RECURSIVE WrapLoop(_, _, _, _)
WrapLoop(words, n, lines, current_line) ==
    IF n > Len(words)
    THEN IF current_line # <<>> THEN Append(lines, Strip(current_line)) ELSE lines
    ELSE IF Len(current_line) + Len(words[n]) <= WRAP_WIDTH
         THEN WrapLoop(words, n + 1, lines, current_line \o <<" ">> \o words[n])
         ELSE WrapLoop(words, n + 1,
                       Append(lines, Strip(current_line) \o <<" ", QUOTE>>),
                       <<QUOTE>> \o words[n])

wrap_string(string) == Join(WrapLoop(Split(string), 1, <<>>, <<>>), <<NL>>)

(***************************************************************************)
(* The three passes of the patcher.  Each iterates over the matches found  *)
(* in the text it was given while replacing in the text as rewritten so    *)
(* far.                                                                    *)
(***************************************************************************)
\* f'msgstr "{msgs[msg_id]}"' put in place of 'msgstr ""' in the match
DefaultTranslated(original_msg, t) ==
    StrReplace(original_msg, MSGSTR_EMPTY, MSGSTR_OPEN \o t \o <<QUOTE>>)

\* f'msgid "{msg_id}"\nmsgstr "{msgs[msg_id]}"\n\n'
FuzzyTranslated(msg_id, t) ==
    MSGID_OPEN \o msg_id \o <<QUOTE, NL>> \o MSGSTR_OPEN \o t \o <<QUOTE, NL, NL>>

\* f'msgid ""{not_formatted_msg}\nmsgstr ""\n"{_wrap_string(msgs[msg_id])}"\n\n'
LongTranslated(not_formatted_msg, t) ==
    MSGID_OPEN \o <<QUOTE>> \o not_formatted_msg \o <<NL>> \o MSGSTR_EMPTY
        \o <<NL, QUOTE>> \o wrap_string(t) \o <<QUOTE, NL, NL>>

RECURSIVE DefaultLoop(_, _, _, _, _, _)
DefaultLoop(found, n, scanned, text, nb_replaced, msgs_) ==
    IF n > Len(found) THEN [content |-> text, nb_replaced |-> nb_replaced]
    ELSE LET original_msg == Group0(scanned, found[n])
             msg_id == finditer("TRANSLATION_REGEX", original_msg, 1)[1].g1
         IN  IF Skipped(msgs_, msg_id)
             THEN DefaultLoop(found, n + 1, scanned, text, nb_replaced, msgs_)
             ELSE DefaultLoop(found, n + 1, scanned,
                      StrReplace(text, original_msg,
                                 DefaultTranslated(original_msg, msgs_[msg_id])),
                      nb_replaced + 1, msgs_)

replace_default_translation_in_file(text, msgs_) ==
    DefaultLoop(finditer("TRANSLATION_REGEX", text, 1), 1, text, text, 0, msgs_)

RECURSIVE FuzzyLoop(_, _, _, _, _, _)
FuzzyLoop(found, n, scanned, text, nb_replaced, msgs_) ==
    IF n > Len(found) THEN [content |-> text, nb_replaced |-> nb_replaced]
    ELSE LET original_msg == Group0(scanned, found[n])
             msg_id == found[n].g1
         IN  IF Skipped(msgs_, msg_id)
             THEN FuzzyLoop(found, n + 1, scanned, text, nb_replaced, msgs_)
             ELSE FuzzyLoop(found, n + 1, scanned,
                      StrReplace(text, original_msg,
                                 FuzzyTranslated(msg_id, msgs_[msg_id])),
                      nb_replaced + 1, msgs_)

replace_fuzzy_translation_in_file(text, msgs_) ==
    FuzzyLoop(finditer("FUZZY_REGEX", text, 1), 1, text, text, 0, msgs_)

RECURSIVE LongLoop(_, _, _, _, _, _)
LongLoop(found, n, scanned, text, nb_replaced, msgs_) ==
    IF n > Len(found) THEN [content |-> text, nb_replaced |-> nb_replaced]
    ELSE LET original_msg == Group0(scanned, found[n])
             not_formatted_msg == found[n].g1
             msg_id == StripQuotesAndBreaks(not_formatted_msg)
         IN  IF Skipped(msgs_, msg_id)
             THEN LongLoop(found, n + 1, scanned, text, nb_replaced, msgs_)
             ELSE LongLoop(found, n + 1, scanned,
                      StrReplace(text, original_msg,
                                 LongTranslated(not_formatted_msg, msgs_[msg_id])),
                      nb_replaced + 1, msgs_)

replace_long_translation_in_file(text, msgs_) ==
    LongLoop(finditer("LONG_TRANSLATION_REGEX", text, 1), 1, text, text, 0, msgs_)

(***************************************************************************)
(* replace_translation_in_content                                          *)
(***************************************************************************)
\* content.replace("\n\n\n\n", "\n\n"): the value the clean-up computes
Cleaned(text) == StrReplace(text, <<NL, NL, NL, NL>>, <<NL, NL>>)

\* the clean-up's value is dropped: `content` is what the passes left
replace_translation_in_content(msgs_, text) ==
    LET p1 == replace_default_translation_in_file(text, msgs_)
        p2 == replace_fuzzy_translation_in_file(p1.content, msgs_)
        p3 == replace_long_translation_in_file(p2.content, msgs_)
        dropped == Cleaned(p3.content)
    IN  [content  |-> p3.content,
         replaced |-> p1.nb_replaced + p2.nb_replaced + p3.nb_replaced]

(***************************************************************************)
(* The patcher applied to a catalog, then the scanner applied to the text  *)
(* it returned.                                                            *)
(***************************************************************************)
PatcherFrame == UNCHANGED <<collectorVars, replaceVars>>

\* content, stat = replace_translation_in_content(translations, content)
Apply ==
    /\ ppc = "ready"
    /\ result' = replace_translation_in_content(mapping, content)
    /\ ppc' = "applied"
    /\ UNCHANGED <<content, mapping, surfaced>>
    /\ PatcherFrame

\* msgs = extract_msgs_from_file(content) on the text the patcher returned
ReExtract ==
    /\ ppc = "applied"
    /\ surfaced' = extract_msgs_from_file(result.content)
    /\ ppc' = "extracted"
    /\ UNCHANGED <<content, mapping, result>>
    /\ PatcherFrame

NextPatcher == Apply \/ ReExtract

\* ---- catalogs and mappings the patcher is run on ----
MaxEntries == 3    \* entries (and separating blank lines) in a catalog

IdA == <<"A">>
IdB == <<"B", "C">>
Plain == <<"T">>
Old == <<"o">>
QuoteBreaks == <<QUOTE, NL, NL>>      \* a csv cell holding a quote and two line breaks

\* msgid "<id>"\nmsgstr ""\n\n
SimpleEntry(id) == MSGID_OPEN \o id \o <<QUOTE>> \o EMPTY_TAIL

\* #, fuzzy\n#| msgid "<prior>"\nmsgid "<id>"\nmsgstr "<old>"\n
FuzzyEntry(prior, id, old) ==
    FUZZY_OPEN \o prior \o <<QUOTE, NL>> \o MSGID_OPEN \o id \o <<QUOTE, NL>>
        \o MSGSTR_OPEN \o old \o <<QUOTE, NL>>

\* msgid ""\n"<line1>"\n"<line2>"...\nmsgstr ""\n\n
RECURSIVE ContinuationLines(_)
ContinuationLines(lines) ==
    IF lines = <<>> THEN <<>>
    ELSE <<NL, QUOTE>> \o Head(lines) \o <<QUOTE>> \o ContinuationLines(Tail(lines))

WrappedEntry(lines) ==
    MSGID_OPEN \o <<QUOTE>> \o ContinuationLines(lines) \o EMPTY_TAIL

\* msgid "<id>"\nmsgstr "<t>"\n\n
TranslatedEntry(id, t) ==
    MSGID_OPEN \o id \o <<QUOTE, NL>> \o MSGSTR_OPEN \o t \o <<QUOTE, NL, NL>>

CatalogBlocks ==
    { SimpleEntry(IdA), SimpleEntry(IdB),
      FuzzyEntry(IdA, IdA, Old), FuzzyEntry(IdA, IdB, <<>>),
      WrappedEntry(<<IdA>>), WrappedEntry(<<<<"B">>, <<"C">>>>),
      TranslatedEntry(IdB, Plain),
      <<NL>> }

RECURSIVE Concat(_)
Concat(blocks) == IF blocks = <<>> THEN <<>> ELSE Head(blocks) \o Concat(Tail(blocks))

Catalogs == {Concat(bs) : bs \in SeqsUpTo(CatalogBlocks, MaxEntries) \ {<<>>}}

Mappings ==
    UNION {[D -> {<<>>, Plain, QuoteBreaks}] : D \in SUBSET {IdA, IdB}}

InitPatcher ==
    /\ content \in Catalogs
    /\ mapping \in Mappings
    /\ result = [content |-> <<>>, replaced |-> 0]
    /\ surfaced = <<>>
    /\ ppc = "ready"
    /\ CollectorIdle /\ ReplaceIdle

SpecPatcher == InitPatcher /\ [][NextPatcher]_vars

(***************************************************************************)
(* Claims about the patcher and the scanner, checked under SpecPatcher.    *)
(***************************************************************************)
Contains(s, pat) == \E n \in 1..Len(s) : HasAt(s, n, pat)

\* runs of blank lines collapsed to a single blank line
RECURSIVE CollapseBlankLines(_)
CollapseBlankLines(s) ==
    IF Contains(s, <<NL, NL, NL>>)
    THEN CollapseBlankLines(StrReplace(s, <<NL, NL, NL>>, <<NL, NL>>))
    ELSE s

\* identifier of a match of the given shape
MatchId(regex, m) ==
    IF regex = "LONG_TRANSLATION_REGEX" THEN StripQuotesAndBreaks(m.g1) ELSE m.g1

\* what a match of the given shape is rewritten to
Reconstruction(regex, s, m, msgs_) ==
    CASE regex = "TRANSLATION_REGEX" ->
            DefaultTranslated(Group0(s, m), msgs_[MatchId(regex, m)])
      [] regex = "FUZZY_REGEX" ->
            FuzzyTranslated(m.g1, msgs_[MatchId(regex, m)])
      [] regex = "LONG_TRANSLATION_REGEX" ->
            LongTranslated(m.g1, msgs_[MatchId(regex, m)])

\* the matches of a shape whose identifier has a non-empty translation
Translatable(regex, s, msgs_) ==
    SelectSeq(finditer(regex, s, 1), LAMBDA m : ~Skipped(msgs_, MatchId(regex, m)))

\* s with the span of every translatable match rewritten once, all else kept
RECURSIVE RewriteSpans(_, _, _, _, _, _)
RewriteSpans(regex, s, ms, n, p, msgs_) ==
    IF n > Len(ms) THEN SubSeq(s, p, Len(s))
    ELSE SubSeq(s, p, ms[n].start - 1)
            \o Reconstruction(regex, s, ms[n], msgs_)
            \o RewriteSpans(regex, s, ms, n + 1, ms[n].stop, msgs_)

Rewritten(regex, s, msgs_) ==
    RewriteSpans(regex, s, Translatable(regex, s, msgs_), 1, 1, msgs_)

\* the texts the three passes work on when each match is rewritten once
AfterSimple == Rewritten("TRANSLATION_REGEX", content, mapping)
AfterFuzzy  == Rewritten("FUZZY_REGEX", AfterSimple, mapping)
AfterLong   == Rewritten("LONG_TRANSLATION_REGEX", AfterFuzzy, mapping)

\* the identifiers of the entries the three passes replace
ReplacedIds ==
    LET t1 == replace_default_translation_in_file(content, mapping).content
        t2 == replace_fuzzy_translation_in_file(t1, mapping).content
        ids(regex, s) == {MatchId(regex, Translatable(regex, s, mapping)[n]) :
                              n \in 1..Len(Translatable(regex, s, mapping))}
    IN  ids("TRANSLATION_REGEX", content) \cup ids("FUZZY_REGEX", t1)
            \cup ids("LONG_TRANSLATION_REGEX", t2)

\* C4: the text the patcher returns has its runs of blank lines collapsed
\* to one, and a catalog patched with the empty mapping comes back as its
\* text with blank lines collapsed, with count 0.
C4_BlankLinesCollapsed ==
    ppc = "applied" =>
        /\ ~Contains(result.content, <<NL, NL, NL>>)
        /\ mapping = EmptyMap =>
              result = [content |-> CollapseBlankLines(content), replaced |-> 0]

\* C5: an identifier that the patcher replaced is not extracted again from
\* the text the patcher returned.
C5_ReplacedNeverSurfaces ==
    ppc = "extracted" =>
        \A n \in 1..Len(surfaced) : surfaced[n] \notin ReplacedIds

\* C7: a catalog that is one fuzzy entry with a previous translation,
\* patched with a translation for its identifier, comes back as the pair
\* msgid/msgstr followed by one blank line, with count 1.
C7_FuzzyBecomesMinimalPair ==
    \A id \in {IdA, IdB} :
        (/\ ppc = "applied"
         /\ content = FuzzyEntry(id, id, Old)
         /\ ~Skipped(mapping, id))
        => result = [content |-> TranslatedEntry(id, mapping[id]), replaced |-> 1]

\* C9: the count is the number of simple, fuzzy and wrapped matches (each
\* shape looked for in the text left by the passes before it) whose
\* identifier has a non-empty translation, every one of them is rewritten
\* once, duplicates included, and every other match is left as it was.
C9_CountAndRewrite ==
    ppc = "applied" =>
        /\ result.replaced =
              Len(Translatable("TRANSLATION_REGEX", content, mapping))
              + Len(Translatable("FUZZY_REGEX", AfterSimple, mapping))
              + Len(Translatable("LONG_TRANSLATION_REGEX", AfterFuzzy, mapping))
        /\ result.content = AfterLong

(***************************************************************************)
(* The wrapped-shape replacement on translations long enough to wrap.      *)
(***************************************************************************)
MaxWords == 3      \* words in a translation

WordLengths == {1, 39, 40, 80, 81}
Word(n) == [j \in 1..n |-> "a"]
Separators == {<<" ">>, <<" ", " ">>}

WrapStrings ==
    {Join(ws, sep) : ws \in SeqsUpTo({Word(n) : n \in WordLengths}, MaxWords) \ {<<>>},
                     sep \in Separators}

InitWrap ==
    /\ content = WrappedEntry(<<IdA>>)
    /\ \E string \in WrapStrings : mapping = [id \in {IdA} |-> string]
    /\ result = [content |-> <<>>, replaced |-> 0]
    /\ surfaced = <<>>
    /\ ppc = "ready"
    /\ CollectorIdle /\ ReplaceIdle

SpecWrap == InitWrap /\ [][NextPatcher]_vars

\* the lines of s
RECURSIVE LinesFrom(_, _)
LinesFrom(s, p) ==
    LET e == LineEnd(s, p)
    IN  IF e > Len(s) THEN <<SubSeq(s, p, Len(s))>>
        ELSE <<SubSeq(s, p, e - 1)>> \o LinesFrom(s, e + 1)

\* the quoted lines that follow the `msgstr ""` line of the patched entry,
\* without their quotes
MsgstrLineContents ==
    LET at    == Least({n \in 1..Len(result.content) :
                           HasAt(result.content, n, MSGSTR_EMPTY \o <<NL>>)})
        first == at + Len(MSGSTR_EMPTY) + 1
        block == SubSeq(result.content, first, Len(result.content) - 2)
        lines == LinesFrom(block, 1)
    IN  [n \in 1..Len(lines) |-> SubSeq(lines[n], 2, Len(lines[n]) - 1)]

RECURSIVE WordsOf(_)
WordsOf(lines) == IF lines = <<>> THEN <<>> ELSE Split(Head(lines)) \o WordsOf(Tail(lines))

\* C6: every quoted line of the msgstr block written by the wrapped-shape
\* replacement holds at most 80 characters, no word is split across lines,
\* and the line contents joined with single spaces are the translation.
C6_WrappedBlock ==
    ppc = "applied" =>
        /\ result.replaced = 1
        /\ \A n \in 1..Len(MsgstrLineContents) :
              Len(MsgstrLineContents[n]) <= WRAP_WIDTH
        /\ WordsOf(MsgstrLineContents) = Split(mapping[IdA])
        /\ Join(MsgstrLineContents, <<" ">>) = mapping[IdA]

(***************************************************************************)
(* replace_list_of_translations: for each language of the csv, read the    *)
(* catalog, patch it in memory, open it for writing and write it.          *)
(***************************************************************************)
MaxLangs == 2      \* languages with a column in the csv

AllLangs == <<"fr", "de", "es", "it">>
Langs == {AllLangs[n] : n \in 1..MaxLangs}

Absent == [exists |-> FALSE, readonly |-> FALSE, text |-> <<>>]

ReplaceFrame == UNCHANGED <<collectorVars, patcherVars>>

language == order[k]

\* the loop moves to the next language, or ends and the totals are printed
NextLanguage == IF k + 1 > Len(order) THEN "done" ELSE "read"

\* open(...) fails: the catalog of the language does not exist
ReadFails ==
    /\ rpc = "read"
    /\ ~files[language].exists
    /\ rpc' = "failed"
    /\ UNCHANGED <<files, original, table, order, k, mem, stats>>
    /\ ReplaceFrame

\* content, stats[language] = replace_translation_in_content(msgs[language], f.read())
ReadAndPatch ==
    /\ rpc = "read"
    /\ files[language].exists
    /\ LET patched == replace_translation_in_content(table[language], files[language].text)
       IN  /\ mem' = patched.content
           /\ stats' = DictSet(stats, language, patched.replaced)
    /\ rpc' = "open_w"
    /\ UNCHANGED <<files, original, table, order, k>>
    /\ ReplaceFrame

\* open(..., "w") fails: the catalog may not be written
OpenForWriteFails ==
    /\ rpc = "open_w"
    /\ files[language].readonly
    /\ rpc' = "failed"
    /\ UNCHANGED <<files, original, table, order, k, mem, stats>>
    /\ ReplaceFrame

\* open(..., "w") truncates the catalog
OpenForWrite ==
    /\ rpc = "open_w"
    /\ ~files[language].readonly
    /\ files' = [files EXCEPT ![language].text = <<>>]
    /\ rpc' = "write"
    /\ UNCHANGED <<original, table, order, k, mem, stats>>
    /\ ReplaceFrame

\* f.write(content) and the close of the file
Write ==
    /\ rpc = "write"
    /\ files' = [files EXCEPT ![language].text = mem]
    /\ k' = k + 1
    /\ rpc' = NextLanguage
    /\ UNCHANGED <<original, table, order, mem, stats>>
    /\ ReplaceFrame

\* f.write(content) or the flush at close raises (disk full, i/o error,
\* interrupt): only a part of the text has reached the truncated file
WriteFails ==
    /\ rpc = "write"
    /\ \E n \in 0..(Len(mem) - 1) :
          files' = [files EXCEPT ![language].text = SubSeq(mem, 1, n)]
    /\ rpc' = "failed"
    /\ UNCHANGED <<original, table, order, k, mem, stats>>
    /\ ReplaceFrame

NextReplace ==
    \/ ReadFails
    \/ ReadAndPatch
    \/ OpenForWriteFails
    \/ OpenForWrite
    \/ Write
    \/ WriteFails

ReplaceCatalogs == {SimpleEntry(IdA), FuzzyEntry(IdA, IdA, Old) \o <<NL>> \o SimpleEntry(IdB)}
ReplaceMappings == {EmptyMap, [id \in {IdA} |-> Plain]}

FileStates ==
    {Absent} \cup {[exists |-> TRUE, readonly |-> ro, text |-> c] :
                      ro \in BOOLEAN, c \in ReplaceCatalogs}

\* msgs.keys(): distinct languages, in the order of the csv header
Orders == {o \in SeqsUpTo(Langs, MaxLangs) :
              \A a, b \in 1..Len(o) : a # b => o[a] # o[b]}

InitReplace ==
    /\ order \in Orders
    /\ table \in [{order[n] : n \in 1..Len(order)} -> ReplaceMappings]
    /\ files \in [Langs -> FileStates]
    /\ original = files
    /\ k = 1
    /\ mem = <<>>
    /\ stats = EmptyMap
    /\ rpc = IF order = <<>> THEN "done" ELSE "read"
    /\ CollectorIdle /\ PatcherIdle

SpecReplace == InitReplace /\ [][NextReplace]_vars

\* the text replace_translation_in_content gives for the catalog of a language
PatchedText(lang) ==
    replace_translation_in_content(table[lang], original[lang].text).content

\* C8: when the cycle of a language fails, the catalogs of the later
\* languages are as they were, the failing catalog holds either its
\* original or its patched text, and the catalogs of the earlier languages
\* hold their patched text; the languages are worked on one at a time.
C8_FailFast ==
    rpc = "failed" =>
        /\ \A n \in 1..Len(order) :
              n > k => files[order[n]] = original[order[n]]
        /\ files[order[k]].text \in {original[order[k]].text, PatchedText(order[k])}
        /\ \A n \in 1..Len(order) :
              n < k => files[order[n]].text = PatchedText(order[n])

====
